---- MODULE Spec2Model ----
(***************************************************************************)
(* roficlip: a clipboard-history daemon (src/roficlip.py) and its older    *)
(* variant (src/mclip.py).  A Python str is a sequence of Unicode code     *)
(* points, a bytes object a sequence of integers 0..255.                   *)
(***************************************************************************)
EXTENDS Integers, Sequences, FiniteSets, TLC

VARIABLES
    ring_size,    \* cfg['ring_size'] of the running daemon
    clipboard,    \* text held by the Gtk clipboard, or None
    ring,         \* the daemon's self.ring
    ring_db,      \* bytes of the file ring.db
    persist,      \* self.persist of the most recent command-line invocation
    persist_db,   \* bytes of the file persistent.db
    wrote,        \* the backing file the last operation rewrote, or "none"
    observed,     \* clipboard values seen by the polls, oldest first
    fifo,         \* bytes written to roficlip.fifo and not read yet
    sent,         \* non-empty texts the selection invocations wrote, in order
    calls,        \* set_text calls of fifo_watcher: the text, the texts it came from
    codec_items,  \* codec harness: the list handed to write
    codec_file,   \* codec harness: the bytes of the backing file
    codec_out,    \* codec harness: the outcome of read, once it ran
    scheduled,    \* the callbacks the GLib main loop will call again
    menu,         \* what the last `--show` first run printed, and from which list
    picked,       \* the last `--show` second run: the row chosen and what it did
    edit          \* the last run of the editor: its exit code and the file it left

vars == <<ring_size, clipboard, ring, ring_db, persist, persist_db, wrote,
          observed, fifo, sent, calls, codec_items, codec_file, codec_out,
          scheduled, menu, picked, edit>>

----------------------------------------------------------------------------
(* Bounds of the model *)

MaxRingSize == 3
MaxObserved == 4
MaxItems == 2
MaxPersist == 3
MaxWrites == 2

(* The most bytes one os.read of the fifo returns *)
READ_SIZE == 65536

(* Characters the model's texts are made of *)
NEWLINE == 10
NEWLINE_CHAR == 172

None == <<-1>>
EmptyText == <<>>
TextA == <<97>>
TextBN == <<98, NEWLINE>>
TextBP == <<98, NEWLINE_CHAR>>
Texts == {TextA, TextBN, TextBP}
ClipValues == Texts \cup {EmptyText, None}

Truthy(clip) == clip /= None /\ clip /= EmptyText

----------------------------------------------------------------------------
(* Sequence helpers: Python slices and list methods *)

Min(a, b) == IF a < b THEN a ELSE b
Max(a, b) == IF a > b THEN a ELSE b

\* items[0:n]; a negative n counts from the end
Slice0(items, n) ==
    SubSeq(items, 1, IF n >= 0 THEN Min(n, Len(items)) ELSE Max(0, Len(items) + n))

\* items[n:]
SliceFrom(items, n) == SubSeq(items, Min(n, Len(items)) + 1, Len(items))

\* x in items
Contains(items, x) == \E i \in 1..Len(items) : items[i] = x

\* A remove that takes out every occurrence
list_remove_all(items, x) == SelectSeq(items, LAMBDA e : e /= x)

\* items.remove(x): the first occurrence only
RECURSIVE list_remove(_, _)
list_remove(items, x) ==
    IF items = <<>> THEN <<>>
    ELSE IF Head(items) = x THEN Tail(items)
    ELSE <<Head(items)>> \o list_remove(Tail(items), x)

\* s.replace(old, new) for a one-character old and a string new
RECURSIVE str_replace(_, _, _)
str_replace(s, old, new) ==
    IF s = <<>> THEN <<>>
    ELSE (IF Head(s) = old THEN new ELSE <<Head(s)>>) \o str_replace(Tail(s), old, new)

\* s.splitlines() for texts whose only line boundary is '\n'
RECURSIVE splitlines_from(_, _, _)
splitlines_from(s, cur, acc) ==
    IF s = <<>> THEN (IF cur = <<>> THEN acc ELSE Append(acc, cur))
    ELSE IF Head(s) = NEWLINE THEN splitlines_from(Tail(s), <<>>, Append(acc, cur))
    ELSE splitlines_from(Tail(s), Append(cur, Head(s)), acc)

splitlines(s) == splitlines_from(s, <<>>, <<>>)

----------------------------------------------------------------------------
(* UTF-8 and struct '>i' *)

utf8_char(cp) ==
    IF cp < 128 THEN <<cp>>
    ELSE IF cp < 2048 THEN <<192 + (cp \div 64), 128 + (cp % 64)>>
    ELSE <<224 + (cp \div 4096), 128 + ((cp \div 64) % 64), 128 + (cp % 64)>>

\* str.encode('utf-8')
RECURSIVE encode_utf8(_)
encode_utf8(s) ==
    IF s = <<>> THEN <<>> ELSE utf8_char(Head(s)) \o encode_utf8(Tail(s))

IsCont(b) == b >= 128 /\ b < 192

\* bytes.decode('utf-8'), strict: ok is FALSE for UnicodeDecodeError
RECURSIVE decode_utf8_from(_, _)
decode_utf8_from(b, acc) ==
    IF b = <<>> THEN [ok |-> TRUE, text |-> acc]
    ELSE IF b[1] < 128 THEN decode_utf8_from(Tail(b), Append(acc, b[1]))
    ELSE IF b[1] >= 194 /\ b[1] < 224 /\ Len(b) >= 2 /\ IsCont(b[2])
        THEN decode_utf8_from(SliceFrom(b, 2),
                              Append(acc, (b[1] - 192) * 64 + (b[2] - 128)))
    ELSE IF b[1] >= 224 /\ b[1] < 240 /\ Len(b) >= 3 /\ IsCont(b[2]) /\ IsCont(b[3])
            /\ (b[1] - 224) * 4096 + (b[2] - 128) * 64 + (b[3] - 128) >= 2048
        THEN decode_utf8_from(SliceFrom(b, 3),
                 Append(acc, (b[1] - 224) * 4096 + (b[2] - 128) * 64 + (b[3] - 128)))
    ELSE [ok |-> FALSE, text |-> <<>>]

decode_utf8(b) == decode_utf8_from(b, <<>>)

\* struct.pack('>i', n) for 0 <= n < 2^31
pack_i(n) ==
    <<(n \div 16777216) % 256, (n \div 65536) % 256, (n \div 256) % 256, n % 256>>

\* struct.unpack('>i', b)[0] for four bytes b: big-endian, signed
unpack_i(b) ==
    (IF b[1] >= 128 THEN b[1] - 256 ELSE b[1]) * 16777216
        + b[2] * 65536 + b[3] * 256 + b[4]

----------------------------------------------------------------------------
(* The backing-file codec *)

\* A writer that counts characters where write counts bytes
write_item_charlen(item) == pack_i(Len(item)) \o encode_utf8(item)

\* One record of write: the length of the encoded item, then the item
write_item(item) == pack_i(Len(encode_utf8(item))) \o encode_utf8(item)

\* ClipboardManager.write: the bytes the file holds afterwards
RECURSIVE write(_)
write(items) ==
    IF items = <<>> THEN <<>> ELSE write_item(Head(items)) \o write(Tail(items))

\* file.read(n) on the bytes left: all of them for a negative n, at most n otherwise
file_read(rest, n) == IF n < 0 THEN rest ELSE Slice0(rest, n)

\* The loop of ClipboardManager.read: err is "none" when it returns result
RECURSIVE read_from(_, _)
read_from(rest, result) ==
    LET bytes_read == file_read(rest, 4) IN
    IF bytes_read = <<>> THEN [err |-> "none", result |-> result]
    ELSE IF Len(bytes_read) < 4 THEN [err |-> "struct.error", result |-> <<>>]
    ELSE LET chunksize == unpack_i(bytes_read)
             after == SliceFrom(rest, 4)
             chunk == file_read(after, chunksize)
             text == decode_utf8(chunk)
         IN  IF ~text.ok THEN [err |-> "UnicodeDecodeError", result |-> <<>>]
             ELSE read_from(SliceFrom(after, Len(chunk)), Append(result, text.text))

read(file) == read_from(file, <<>>)

----------------------------------------------------------------------------
(* The stores *)

\* sync_items without the removal of the entry already present
sync_items_noremove(clip, items) ==
    IF Truthy(clip) /\ (items = <<>> \/ clip /= items[1])
    THEN [ret |-> TRUE, items |-> <<clip>> \o items]
    ELSE [ret |-> FALSE, items |-> items]

\* sync_items without the test that there is a text at all
sync_items_anyclip(clip, items) ==
    IF items = <<>> \/ clip /= items[1]
    THEN [ret |-> TRUE,
          items |-> <<clip>> \o (IF Contains(items, clip)
                                 THEN list_remove(items, clip) ELSE items)]
    ELSE [ret |-> FALSE, items |-> items]

\* sync_items that puts the text at the end of the list
sync_items_append(clip, items) ==
    IF Truthy(clip) /\ (items = <<>> \/ clip /= items[1])
    THEN [ret |-> TRUE,
          items |-> (IF Contains(items, clip)
                     THEN list_remove(items, clip) ELSE items) \o <<clip>>]
    ELSE [ret |-> FALSE, items |-> items]

\* sync_items without the comparison with the first entry
sync_items_nocheck(clip, items) ==
    IF Truthy(clip)
    THEN [ret |-> TRUE,
          items |-> <<clip>> \o (IF Contains(items, clip)
                                 THEN list_remove(items, clip) ELSE items)]
    ELSE [ret |-> FALSE, items |-> items]

\* ClipboardManager.sync_items: what it returns and the list it leaves
sync_items(clip, items) ==
    IF Truthy(clip) /\ (items = <<>> \/ clip /= items[1])
    THEN [ret |-> TRUE,
          items |-> <<clip>> \o (IF Contains(items, clip)
                                 THEN list_remove(items, clip) ELSE items)]
    ELSE [ret |-> FALSE, items |-> items]

\* The user or another program puts v on the clipboard, or clears it
SetClipboard(v) ==
    /\ clipboard' = v
    /\ wrote' = "none"
    /\ UNCHANGED <<ring_size, ring, ring_db, persist, persist_db>>

\* cb_watcher that never cuts the ring to ring_size
CbWatcherNoCut ==
    LET r == sync_items(clipboard, ring) IN
    /\ ring' = r.items
    /\ ring_db' = (IF r.ret THEN write(ring') ELSE ring_db)
    /\ wrote' = (IF r.ret THEN "ring_db" ELSE "none")
    /\ UNCHANGED <<ring_size, clipboard, persist, persist_db>>

\* cb_watcher that writes the list before it is cut to ring_size
CbWatcherWriteUncut ==
    LET r == sync_items(clipboard, ring) IN
    /\ ring' = (IF r.ret THEN Slice0(r.items, ring_size) ELSE r.items)
    /\ ring_db' = (IF r.ret THEN write(r.items) ELSE ring_db)
    /\ wrote' = (IF r.ret THEN "ring_db" ELSE "none")
    /\ UNCHANGED <<ring_size, clipboard, persist, persist_db>>

\* ClipboardManager.cb_watcher: one clipboard poll of the daemon
CbWatcher ==
    LET r == sync_items(clipboard, ring) IN
    /\ ring' = (IF r.ret THEN Slice0(r.items, ring_size) ELSE r.items)
    /\ ring_db' = (IF r.ret THEN write(ring') ELSE ring_db)
    /\ wrote' = (IF r.ret THEN "ring_db" ELSE "none")
    /\ UNCHANGED <<ring_size, clipboard, persist, persist_db>>

\* The daemon is started again: __init__ reads ring.db, load_config the settings
Restart(size) ==
    LET loaded == read(ring_db) IN
    /\ loaded.err = "none"
    /\ ring' = loaded.result
    /\ ring_size' = size
    /\ wrote' = "none"
    /\ UNCHANGED <<clipboard, ring_db, persist, persist_db>>

\* persistent_add, run by `roficlip.py --add`: __init__ loads the store first
PersistentAdd ==
    LET loaded == read(persist_db)
        r == sync_items(clipboard, loaded.result)
    IN
    /\ loaded.err = "none"
    /\ Len(r.items) <= MaxPersist
    /\ persist' = r.items
    /\ persist_db' = (IF r.ret THEN write(persist') ELSE persist_db)
    /\ wrote' = (IF r.ret THEN "persist_db" ELSE "none")
    /\ UNCHANGED <<ring_size, clipboard, ring, ring_db>>

\* persistent_remove, run by `roficlip.py --remove`
PersistentRemove ==
    LET loaded == read(persist_db)
        hit == Truthy(clipboard) /\ Contains(loaded.result, clipboard)
    IN
    /\ loaded.err = "none"
    /\ persist' = (IF hit THEN list_remove(loaded.result, clipboard)
                   ELSE loaded.result)
    /\ persist_db' = (IF hit THEN write(persist') ELSE persist_db)
    /\ wrote' = (IF hit THEN "persist_db" ELSE "none")
    /\ UNCHANGED <<ring_size, clipboard, ring, ring_db>>

\* The temporary file persistent_edit hands to the editor
RECURSIVE tmp_text(_)
tmp_text(items) ==
    IF items = <<>> THEN <<>>
    ELSE str_replace(Head(items), NEWLINE, <<NEWLINE_CHAR>>) \o <<NEWLINE>>
             \o tmp_text(Tail(items))

\* A persistent_edit that stores the lines as they are in the file
edited_clip_raw(line) == line

\* One line of the edited file, as persistent_edit stores it
edited_clip(line) ==
    str_replace(str_replace(line, NEWLINE, <<>>), NEWLINE_CHAR, <<NEWLINE>>)

\* What the user may leave in the file: it unchanged, nothing, a line twice,
\* or three lines, one of them blank, with no newline at the end
EditedTexts(tmp) ==
    {tmp, <<>>, <<97, NEWLINE, 97, NEWLINE>>,
     <<98, NEWLINE_CHAR, NEWLINE, NEWLINE, 97>>}

\* The exit codes an editor run ends with in the model: success, failure
ExitCodes == {0, 1}

\* A persistent_edit that takes the file whatever the editor's exit code
editor_any_exit(ret) == TRUE

\* Whether persistent_edit takes the edited file: the editor exited with 0
editor_succeeded(ret) == ret = 0

\* persistent_edit once the editor has exited with ret and left edited in the
\* temporary file; with an empty store the editor is not started
PersistentEditWith(ret, edited) ==
    LET loaded == read(persist_db)
        clips == splitlines(edited)
        replaced == loaded.result /= <<>> /\ editor_succeeded(ret) /\ clips /= <<>>
    IN
    /\ loaded.err = "none"
    /\ persist' = (IF replaced
                   THEN [i \in 1..Len(clips) |-> edited_clip(clips[i])]
                   ELSE loaded.result)
    /\ persist_db' = (IF replaced THEN write(persist') ELSE persist_db)
    /\ wrote' = (IF replaced THEN "persist_db" ELSE "none")
    /\ UNCHANGED <<ring_size, clipboard, ring, ring_db>>

\* persistent_edit, run by `roficlip.py --edit`: the editor exits with some
\* code and leaves one of EditedTexts in the temporary file
PersistentEdit ==
    \E ret \in ExitCodes : \E edited \in EditedTexts(tmp_text(read(persist_db).result)) :
        PersistentEditWith(ret, edited)

----------------------------------------------------------------------------
(* The daemon and the command-line invocations on the two stores *)

codec_vars == <<codec_items, codec_file, codec_out>>

select_vars == <<menu, picked>>

\* The two callbacks ClipboardManager.daemon hands to GLib.timeout_add
Callbacks == {"cb_watcher", "fifo_watcher"}

NoMenu == [rows |-> <<>>, items |-> <<>>, persistent |-> FALSE]

NoPick == [row |-> -1, via |-> "none", index |-> -1, err |-> "none",
           shown |-> <<>>, text |-> <<>>]

NoEdit == [ret |-> -1, text |-> <<>>]

chan_vars == <<fifo, sent, calls>>

Pending == [err |-> "pending", result |-> <<>>]

\* ClipboardManager.__init__ of the daemon on an installation whose persistent
\* store holds stored and whose history is empty
StartWith(stored) ==
    /\ ring_size \in 0..MaxRingSize
    /\ clipboard = None
    /\ ring = <<>>
    /\ ring_db = <<>>
    /\ persist = stored
    /\ persist_db = write(stored)
    /\ wrote = "none"
    /\ observed = <<>>
    /\ fifo = <<>>
    /\ sent = <<>>
    /\ calls = <<>>
    /\ scheduled = Callbacks
    /\ menu = NoMenu
    /\ picked = NoPick
    /\ edit = NoEdit

\* The codec harness at rest
CodecIdle ==
    /\ codec_items = <<>>
    /\ codec_file = <<>>
    /\ codec_out = Pending

\* A fresh installation: __init__ creates both files empty
Init == StartWith(<<>>) /\ CodecIdle

Next ==
    \/ \E v \in ClipValues : SetClipboard(v) /\ UNCHANGED <<observed, chan_vars, codec_vars, scheduled, select_vars, edit>>
    \/ CbWatcher /\ UNCHANGED <<observed, chan_vars, codec_vars, scheduled, select_vars, edit>>
    \/ \E size \in 0..MaxRingSize : Restart(size) /\ UNCHANGED <<observed, chan_vars, codec_vars, scheduled, select_vars, edit>>
    \/ PersistentAdd /\ UNCHANGED <<observed, chan_vars, codec_vars, scheduled, select_vars, edit>>
    \/ PersistentRemove /\ UNCHANGED <<observed, chan_vars, codec_vars, scheduled, select_vars, edit>>
    \/ PersistentEdit /\ UNCHANGED <<observed, chan_vars, codec_vars, scheduled, select_vars, edit>>

Spec == Init /\ [][Next]_vars

----------------------------------------------------------------------------
(* The daemon alone, from an empty history, with a log of what its polls saw *)

ObservedPoll ==
    /\ Len(observed) < MaxObserved
    /\ CbWatcher
    /\ observed' = Append(observed, clipboard)
    /\ UNCHANGED <<chan_vars, codec_vars, scheduled, select_vars, edit>>

PollNext ==
    \/ \E v \in ClipValues : SetClipboard(v) /\ UNCHANGED <<observed, chan_vars, codec_vars, scheduled, select_vars, edit>>
    \/ ObservedPoll

SpecPoll == Init /\ [][PollNext]_vars

----------------------------------------------------------------------------
(* The command channel: selection invocations write, the daemon polls *)

RECURSIVE Flat(_)
Flat(texts) == IF texts = <<>> THEN <<>> ELSE Head(texts) \o Flat(Tail(texts))

RECURSIVE Consumed(_)
Consumed(cs) == IF cs = <<>> THEN 0 ELSE Len(Head(cs).from) + Consumed(Tail(cs))

\* The texts written to the fifo that no read has returned yet
Unread == SubSeq(sent, Consumed(calls) + 1, Len(sent))

\* A read of one byte at a time
os_read_one_byte(pipe) == Slice0(pipe, 1)

\* os.read(self.fifo, READ_SIZE) on the bytes in the pipe
os_read(pipe) == Slice0(pipe, READ_SIZE)

\* A fifo_watcher that keeps the first line of what it read
fifo_text_first_line(fifo_in) ==
    LET text == decode_utf8(fifo_in) IN
    [ok |-> text.ok,
     text |-> IF text.ok /\ splitlines(text.text) /= <<>>
              THEN splitlines(text.text)[1] ELSE <<>>]

\* The text fifo_watcher puts on the clipboard for the bytes it read
fifo_text(fifo_in) == decode_utf8(fifo_in)

\* What os.read(self.fifo, READ_SIZE) gives fifo_watcher: the bytes in the
\* pipe; with none there, EAGAIN while a writer holds the fifo open (fifo_in
\* is then None) or no bytes when no writer does
fifo_reads(pipe) == IF pipe = <<>> THEN {None, <<>>} ELSE {os_read(pipe)}

\* A fifo_watcher that asks to be called again only after it read something
fifo_watcher_ret_data(fifo_in) == Truthy(fifo_in)

\* What fifo_watcher returns to the main loop
fifo_watcher_ret(fifo_in) == TRUE

\* What cb_watcher returns to the main loop
cb_watcher_ret == TRUE

\* A fifo_watcher that also records what it read in the history ring
FifoWatcherRecords ==
    \E fifo_in \in fifo_reads(fifo) :
        LET data == Truthy(fifo_in)
            text == IF data THEN fifo_text(fifo_in) ELSE [ok |-> TRUE, text |-> <<>>]
        IN
        /\ text.ok
        /\ fifo' = (IF data THEN SliceFrom(fifo, Len(fifo_in)) ELSE fifo)
        /\ clipboard' = (IF data THEN text.text ELSE clipboard)
        /\ calls' = (IF data
                     THEN Append(calls, [text |-> text.text, from |-> Unread])
                     ELSE calls)
        /\ ring' = (IF data THEN Slice0(sync_items(text.text, ring).items, ring_size)
                    ELSE ring)
        /\ ring_db' = (IF data THEN write(ring') ELSE ring_db)
        /\ wrote' = (IF data THEN "ring_db" ELSE "none")
        /\ UNCHANGED <<ring_size, persist, persist_db, sent>>

\* ClipboardManager.fifo_watcher: one channel poll of the daemon.  A read that
\* finds nothing (EAGAIN, or no bytes) sets nothing.
FifoWatcher ==
    \E fifo_in \in fifo_reads(fifo) :
        LET data == Truthy(fifo_in)
            text == IF data THEN fifo_text(fifo_in) ELSE [ok |-> TRUE, text |-> <<>>]
        IN
        /\ text.ok
        /\ fifo' = (IF data THEN SliceFrom(fifo, Len(fifo_in)) ELSE fifo)
        /\ clipboard' = (IF data THEN text.text ELSE clipboard)
        /\ calls' = (IF data
                     THEN Append(calls, [text |-> text.text, from |-> Unread])
                     ELSE calls)
        /\ wrote' = "none"
        /\ UNCHANGED <<ring_size, ring, ring_db, persist, persist_db, sent>>

\* copy_item, run by `roficlip.py --show [--persistent]` on its second run with
\* the index of the chosen row: __init__ loads both stores, then the entry is
\* written to the fifo in one write and the fifo is closed
CopyItem(index, persistent) ==
    LET loaded_ring == read(ring_db)
        loaded_persist == read(persist_db)
        items == IF persistent THEN loaded_persist.result ELSE loaded_ring.result
    IN
    /\ loaded_ring.err = "none"
    /\ loaded_persist.err = "none"
    /\ index < Len(items)
    /\ Len(sent) < MaxWrites
    /\ fifo' = fifo \o encode_utf8(items[index + 1])
    /\ sent' = (IF items[index + 1] /= <<>> THEN Append(sent, items[index + 1])
                ELSE sent)
    /\ persist' = loaded_persist.result
    /\ wrote' = "none"
    /\ UNCHANGED <<ring_size, clipboard, ring, ring_db, persist_db, calls>>

\* GLib.timeout_add: a callback that returned True is called again after the
\* interval, one that returned False is dropped
Reschedule(callback, ret) ==
    scheduled' = (IF ret THEN scheduled ELSE scheduled \ {callback})

\* ClipboardManager.daemon: the two timers, each running its callback
ClipboardTimer ==
    /\ "cb_watcher" \in scheduled
    /\ CbWatcher
    /\ Reschedule("cb_watcher", cb_watcher_ret)
    /\ UNCHANGED <<observed, chan_vars, codec_vars, select_vars, edit>>

ChannelTimer ==
    /\ "fifo_watcher" \in scheduled
    /\ FifoWatcher
    /\ Reschedule("fifo_watcher", fifo_watcher_ret(os_read(fifo)))
    /\ UNCHANGED <<observed, codec_vars, select_vars, edit>>

\* One tick of the daemon as a function of what the two callbacks work on
TickState == [clipboard |-> clipboard, ring |-> ring, ring_db |-> ring_db, fifo |-> fifo]

\* cb_watcher that never cuts the ring, as a function
cb_watcher_nocut(s) ==
    LET r == sync_items(s.clipboard, s.ring) IN
    [s EXCEPT !.ring = r.items,
              !.ring_db = IF r.ret THEN write(r.items) ELSE s.ring_db]

\* ClipboardManager.cb_watcher as a function of the state it finds
cb_watcher(s) ==
    LET r == sync_items(s.clipboard, s.ring)
        cut == IF r.ret THEN Slice0(r.items, ring_size) ELSE r.items
    IN
    [s EXCEPT !.ring = cut,
              !.ring_db = IF r.ret THEN write(cut) ELSE s.ring_db]

\* ClipboardManager.fifo_watcher as a function of the state it finds
fifo_watcher(s) ==
    LET fifo_in == os_read(s.fifo) IN
    IF Truthy(fifo_in)
    THEN [s EXCEPT !.clipboard = fifo_text(fifo_in).text,
                   !.fifo = SliceFrom(s.fifo, Len(fifo_in))]
    ELSE s

\* One tick: both callbacks, in one order or the other
Tick(s, clipboard_first) ==
    IF clipboard_first THEN fifo_watcher(cb_watcher(s))
    ELSE cb_watcher(fifo_watcher(s))

\* The tick that finds the present state, then one more tick with no new input
ClipboardFirst == Tick(Tick(TickState, TRUE), TRUE)

ChannelFirst == Tick(Tick(TickState, FALSE), FALSE)

\* What the user copies while selections are made
ChanClipValues == {None, TextA, TextBP}

ChanNext ==
    \/ \E v \in ChanClipValues : SetClipboard(v) /\ UNCHANGED <<observed, chan_vars, codec_vars, scheduled, select_vars, edit>>
    \/ ClipboardTimer
    \/ ChannelTimer
    \/ \E index \in 0..(MaxRingSize - 1) : \E persistent \in BOOLEAN :
           CopyItem(index, persistent) /\ UNCHANGED <<observed, codec_vars, scheduled, select_vars, edit>>

\* The daemon starts on an installation whose persistent store is empty or
\* holds two entries an earlier edit left, one of them an empty line
ChanInit ==
    /\ \E stored \in {<<>>, <<TextBN, EmptyText>>} : StartWith(stored)
    /\ CodecIdle

SpecChan == ChanInit /\ [][ChanNext]_vars

\* The two timers of the daemon keep firing: a poll that has something to do
\* is not put off for ever
SpecChanFair == SpecChan /\ WF_vars(ChannelTimer) /\ WF_vars(ClipboardTimer)

----------------------------------------------------------------------------
(* The menu: a first run prints the rows, the launcher shows them and runs  *)
(* the program a second time for the chosen row                             *)

\* ROFI_INFO.decode('utf-8'): NUL, "info", unit separator
ROFI_INFO == <<0, 105, 110, 102, 111, 31>>

\* cfg['preview_width'], the default
PREVIEW_WIDTH == 100

\* STRING_LIMIT of mclip.py
STRING_LIMIT == 200

\* str(n) for n >= 0
RECURSIVE int_str(_)
int_str(n) ==
    IF n < 10 THEN <<48 + n>> ELSE int_str(n \div 10) \o <<48 + (n % 10)>>

IsDigits(s) == s /= <<>> /\ \A i \in 1..Len(s) : s[i] >= 48 /\ s[i] <= 57

RECURSIVE digits_value(_, _)
digits_value(s, acc) ==
    IF s = <<>> THEN acc ELSE digits_value(Tail(s), acc * 10 + (Head(s) - 48))

\* int(s) for an unsigned decimal s: ok is FALSE for ValueError
py_int(s) ==
    IF IsDigits(s) THEN [ok |-> TRUE, value |-> digits_value(s, 0)]
    ELSE [ok |-> FALSE, value |-> -1]

\* s.index(ch) + 1, or 0 when ch is not in s
RECURSIVE index_of(_, _, _)
index_of(s, ch, at) ==
    IF at > Len(s) THEN 0 ELSE IF s[at] = ch THEN at ELSE index_of(s, ch, at + 1)

\* One row of show_items for the history or the persistent list, with the
\* default settings (show_comments_first off)
show_row(clip, index) ==
    Slice0(str_replace(clip, NEWLINE, <<NEWLINE_CHAR>>), PREVIEW_WIDTH)
        \o ROFI_INFO \o int_str(index)

\* ClipboardManager.show_items: the rows printed, one per entry
show_items(items) == [i \in 1..Len(items) |-> show_row(items[i], i - 1)]

\* rofi (rofi-script.5): the part of a row before NUL is what it displays and
\* hands back as the argument of the second run
rofi_row_text(row) ==
    LET nul == index_of(row, 0, 1) IN
    IF nul = 0 THEN row ELSE SubSeq(row, 1, nul - 1)

\* rofi (rofi-script.5): the value after NUL "info" US becomes the environment
\* variable ROFI_INFO of the second run; None when the row has none
rofi_row_info(row) ==
    LET nul == index_of(row, 0, 1)
        rest == SubSeq(row, nul + 1, Len(row))
    IN
    IF nul /= 0 /\ Len(rest) >= 5 /\ SubSeq(rest, 1, 5) = SubSeq(ROFI_INFO, 2, 6)
    THEN LET value == SubSeq(rest, 6, Len(rest))
             us == index_of(value, 31, 1)
         IN  IF us = 0 THEN value ELSE SubSeq(value, 1, us - 1)
    ELSE None

\* The index the second run of `--show` works with: int(ROFI_INFO) when the
\* variable is set, else the argument as it came, a str
selection_index(env, item) ==
    IF env /= None
    THEN (IF py_int(env).ok THEN [type |-> "int", value |-> py_int(env).value]
          ELSE [type |-> "ValueError", value |-> -1])
    ELSE IF item /= None THEN [type |-> "str", value |-> -1]
    ELSE [type |-> "None", value |-> -1]

\* items[index] in copy_item: the error it raises, or "none"
item_error(index, items) ==
    IF index.type = "int"
    THEN (IF index.value < Len(items) THEN "none" ELSE "IndexError")
    ELSE IF index.type = "str" THEN "TypeError"
    ELSE index.type

\* mclip.py menu: one row, "<index>: <text>"
menu_row(index, clip) ==
    int_str(index) \o <<58, 32>> \o Slice0(str_replace(clip, NEWLINE, <<32>>), STRING_LIMIT)

\* mclip.py copy: the index read from the chosen row
copy_index(select) ==
    LET colon == index_of(select, 58, 1) IN
    IF colon = 0 THEN [ok |-> FALSE, value |-> -1]
    ELSE py_int(SubSeq(select, 1, colon - 1))

\* The list a run of `--show` works on: __init__ has read both files
ShowList(persistent) ==
    IF persistent THEN read(persist_db).result ELSE read(ring_db).result

\* First run of `roficlip.py --show [--persistent]`: the rows are printed
ShowItems(persistent) ==
    /\ read(ring_db).err = "none"
    /\ read(persist_db).err = "none"
    /\ menu' = [rows |-> show_items(ShowList(persistent)),
                items |-> ShowList(persistent),
                persistent |-> persistent]
    /\ picked' = NoPick
    /\ persist' = read(persist_db).result
    /\ wrote' = "none"
    /\ UNCHANGED <<ring_size, clipboard, ring, ring_db, persist_db, chan_vars>>

\* Second run of `roficlip.py --show [--persistent] <item>` for the row the
\* user chose: rofi hands over the row's text as <item>, and its info as
\* ROFI_INFO when via is "env"; a launcher that knows no info hands over the
\* text alone.  copy_item opens the fifo, then reads items[index].
Select(row, via) ==
    LET line == menu.rows[row + 1]
        env == IF via = "env" THEN rofi_row_info(line) ELSE None
        index == selection_index(env, rofi_row_text(line))
        items == ShowList(menu.persistent)
        err == item_error(index, items)
    IN
    /\ row < Len(menu.rows)
    /\ picked = NoPick
    /\ read(ring_db).err = "none"
    /\ read(persist_db).err = "none"
    /\ picked' = [row |-> row, via |-> via, index |-> index.value, err |-> err,
                  shown |-> menu.items[row + 1],
                  text |-> IF err = "none" THEN items[index.value + 1] ELSE None]
    /\ IF err = "none"
       THEN CopyItem(index.value, menu.persistent)
       ELSE /\ persist' = read(persist_db).result
            /\ wrote' = "none"
            /\ UNCHANGED <<ring_size, clipboard, ring, ring_db, persist_db, chan_vars>>
    /\ UNCHANGED menu

SelectNext ==
    \/ \E v \in ChanClipValues : SetClipboard(v) /\ UNCHANGED <<observed, chan_vars, codec_vars, scheduled, select_vars, edit>>
    \/ ClipboardTimer
    \/ \E persistent \in BOOLEAN :
           ShowItems(persistent) /\ UNCHANGED <<observed, codec_vars, scheduled, edit>>
    \/ \E row \in 0..(MaxRingSize - 1) : \E via \in {"env", "arg"} :
           Select(row, via) /\ UNCHANGED <<observed, codec_vars, scheduled, edit>>

SpecSelect == ChanInit /\ [][SelectNext]_vars

----------------------------------------------------------------------------
(* The persistent store alone, with a record of each run of the editor *)

\* `roficlip.py --edit`, noting what the editor did when it was started
EditorRun ==
    \E ret \in ExitCodes : \E edited \in EditedTexts(tmp_text(read(persist_db).result)) :
        /\ PersistentEditWith(ret, edited)
        /\ edit' = (IF read(persist_db).result = <<>> THEN NoEdit
                    ELSE [ret |-> ret, text |-> edited])

EditNext ==
    \/ \E v \in ClipValues : SetClipboard(v) /\ UNCHANGED <<observed, chan_vars, codec_vars, scheduled, select_vars, edit>>
    \/ PersistentAdd /\ UNCHANGED <<observed, chan_vars, codec_vars, scheduled, select_vars, edit>>
    \/ PersistentRemove /\ UNCHANGED <<observed, chan_vars, codec_vars, scheduled, select_vars, edit>>
    \/ EditorRun /\ UNCHANGED <<observed, chan_vars, codec_vars, scheduled, select_vars>>

\* The command-line invocations take no notice of ring_size
EditInit == Init /\ ring_size = MaxRingSize

SpecEdit == EditInit /\ [][EditNext]_vars

----------------------------------------------------------------------------
(* The codec alone: a list is written, the writer may be killed part-way,   *)
(* and the file is read back                                                *)

CodecTexts == Texts \cup {EmptyText}

ItemLists == UNION {[1..n -> CodecTexts] : n \in 0..MaxItems}

CodecInit ==
    /\ StartWith(<<>>)
    /\ codec_items \in ItemLists
    /\ codec_file = write(codec_items)
    /\ codec_out = Pending

\* The process is killed inside write: the file keeps the first n bytes only
CodecKill ==
    /\ codec_out = Pending
    /\ codec_file = write(codec_items)
    /\ \E n \in 0..(Len(codec_file) - 1) : codec_file' = Slice0(codec_file, n)
    /\ UNCHANGED <<codec_items, codec_out>>

\* The next start of the program reads the file
CodecRead ==
    /\ codec_out = Pending
    /\ codec_out' = read(codec_file)
    /\ UNCHANGED <<codec_items, codec_file>>

store_vars == <<ring_size, clipboard, ring, ring_db, persist, persist_db, wrote,
                observed, chan_vars, scheduled, select_vars, edit>>

CodecNext ==
    \/ CodecKill /\ UNCHANGED store_vars
    \/ CodecRead /\ UNCHANGED store_vars

SpecCodec == CodecInit /\ [][CodecNext]_vars

----------------------------------------------------------------------------
(* Vocabulary of the properties *)

NoDuplicates(items) ==
    \A i, j \in 1..Len(items) : items[i] = items[j] => i = j

FirstN(items, n) == SubSeq(items, 1, IF n < Len(items) THEN n ELSE Len(items))

Without(items, x) == SelectSeq(items, LAMBDA e : e /= x)

\* The distinct non-empty values of a log, the most recently logged first
RECURSIVE RecentDistinct(_, _)
RecentDistinct(log, acc) ==
    IF log = <<>> THEN acc
    ELSE LET v == log[Len(log)] IN
         RecentDistinct(SubSeq(log, 1, Len(log) - 1),
                        IF v /= None /\ v /= <<>> /\ ~Contains(acc, v)
                        THEN Append(acc, v) ELSE acc)

\* The file ends in a length prefix declaring more bytes than follow it
RECURSIVE ShortLastRecord(_)
ShortLastRecord(bytes) ==
    IF Len(bytes) < 4 THEN FALSE
    ELSE LET n == unpack_i(SubSeq(bytes, 1, 4))
             rest == SubSeq(bytes, 5, Len(bytes))
         IN  IF n > Len(rest) THEN TRUE
             ELSE IF n < 0 THEN FALSE
             ELSE ShortLastRecord(SubSeq(rest, n + 1, Len(rest)))

----------------------------------------------------------------------------
(* Properties *)

\* C1: from an empty history with ring_size >= 1, after any polls the ring is
\* the distinct non-empty values the polls saw, the most recently seen first,
\* cut to the first ring_size of them.
C1_RingIsRecentDistinct ==
    ring_size >= 1 => ring = FirstN(RecentDistinct(observed, <<>>), ring_size)

C1_Witness ==
    /\ observed = <<TextA, TextBN, TextA>>
    /\ ring = <<TextA, TextBN>>
    /\ ring_size = 3

\* C2: neither the history ring nor the persistent store ever holds the same
\* value twice.
C2_NoDuplicates == NoDuplicates(ring) /\ NoDuplicates(persist)

\* C3: from the moment the ring is loaded, the ring is never longer than
\* ring_size.
C3_RingWithinCapacity == Len(ring) <= ring_size

\* C4: on a duplicate-free list, sync with a non-empty candidate c that is not
\* the first entry returns true and leaves c followed by the other entries in
\* their order; the history ring is then cut to ring_size entries, the
\* persistent store is not cut.
C4_MoveToFront ==
    [][ /\ ( /\ CbWatcher
             /\ NoDuplicates(ring)
             /\ Truthy(clipboard)
             /\ (ring = <<>> \/ clipboard /= ring[1]) )
           => /\ sync_items(clipboard, ring).ret
              /\ wrote' = "ring_db"
              /\ ring' = FirstN(<<clipboard>> \o Without(ring, clipboard), ring_size)
        /\ ( /\ PersistentAdd
             /\ NoDuplicates(read(persist_db).result)
             /\ Truthy(clipboard)
             /\ (read(persist_db).result = <<>>
                    \/ clipboard /= read(persist_db).result[1]) )
           => /\ sync_items(clipboard, read(persist_db).result).ret
              /\ wrote' = "persist_db"
              /\ persist' = <<clipboard>> \o Without(read(persist_db).result, clipboard)
      ]_vars

C4_Witness ==
    /\ wrote = "persist_db"
    /\ persist = <<TextBP, TextA, TextBN>>
    /\ ring_size = 2
    /\ ring = <<TextBP, TextA>>
    /\ clipboard = TextBP

\* C5 as claimed: for every capacity, the second of two polls that see the same
\* clipboard text returns false, changes nothing and rewrites nothing.
C5_SecondPollIdle ==
    [][ (ObservedPoll /\ observed /= <<>> /\ observed[Len(observed)] = clipboard)
        => /\ ~sync_items(clipboard, ring).ret
           /\ wrote' = "none"
           /\ ring' = ring
           /\ ring_db' = ring_db ]_vars

\* C5: for every capacity ring_size >= 1, the second of two polls that see the
\* same clipboard text returns false, changes nothing and rewrites nothing.
C5_SecondPollIdleFromOne ==
    [][ ( /\ ObservedPoll
          /\ ring_size >= 1
          /\ observed /= <<>>
          /\ observed[Len(observed)] = clipboard )
        => /\ ~sync_items(clipboard, ring).ret
           /\ wrote' = "none"
           /\ ring' = ring
           /\ ring_db' = ring_db ]_vars

C5_Witness ==
    /\ observed = <<TextBN, TextA, TextA>>
    /\ ring = <<TextA, TextBN>>
    /\ wrote = "none"
    /\ clipboard = TextA

\* C6: each backing file decodes to exactly the in-memory list of its store,
\* after every operation.
C6_FilesMatchMemory ==
    /\ read(ring_db) = [err |-> "none", result |-> ring]
    /\ read(persist_db) = [err |-> "none", result |-> persist]

C6_Witness ==
    /\ wrote = "ring_db"
    /\ Len(ring) = ring_size
    /\ ring = <<TextBP, TextA>>
    /\ Contains(persist, EmptyText)
    /\ Contains(persist, TextBN)

\* C7: reading back what write wrote for a list gives the list, whatever the
\* list: empty, with empty strings, with the newline placeholder.
C7_RoundTrip ==
    (codec_out /= Pending /\ codec_file = write(codec_items))
        => codec_out = [err |-> "none", result |-> codec_items]

C7_Witness ==
    /\ codec_out = [err |-> "none", result |-> <<EmptyText, TextBP>>]
    /\ codec_file = write(codec_items)

\* C8: reading a file whose last length prefix declares more bytes than follow
\* it ends in an error, never in a list.
C8_ShortRecordIsError ==
    (codec_out /= Pending /\ ShortLastRecord(codec_file)) => codec_out.err /= "none"

\* C9 as claimed: every set_text call of the channel poll carries exactly the
\* text of one completed writer operation.
C9_OnePayloadPerCall ==
    \A i \in 1..Len(calls) :
        Len(calls[i].from) = 1 /\ calls[i].text = calls[i].from[1]

\* C9: every set_text call of the channel poll carries the complete texts of
\* the writer operations completed since the last call, joined in the order
\* they were written: one text alone when one was written, never a part of one.
C9_WholePayloadsInOrder ==
    \A i \in 1..Len(calls) :
        calls[i].from /= <<>> /\ calls[i].text = Flat(calls[i].from)

C9_Witness ==
    /\ Len(calls) = 1
    /\ calls[1].from = <<TextBN, TextA>>
    /\ calls[1].text = <<98, NEWLINE, 97>>

Times(texts, p) == Cardinality({i \in 1..Len(texts) : texts[i] = p})

CallTexts == [i \in 1..Len(calls) |-> calls[i].text]

\* C10 as claimed: once the channel is drained, every text written to it has
\* been passed to set_text as often as it was written, each write exactly once.
C10_EachPayloadPassedOnce ==
    fifo = <<>> =>
        \A i \in 1..Len(sent) : Times(CallTexts, sent[i]) = Times(sent, sent[i])

\* C10: the characters passed to set_text, then those still in the channel,
\* are always the characters written, in order and once each; and what is in
\* the channel is eventually passed on.
C10_NothingLostOrRepeated ==
    /\ [](decode_utf8(fifo).ok
            /\ Flat(CallTexts) \o decode_utf8(fifo).text = Flat(sent))
    /\ (fifo /= <<>>) ~> (fifo = <<>>)

C10_Witness ==
    /\ fifo = <<>>
    /\ Len(calls) = 2
    /\ sent = <<TextA, TextA>>
    /\ clipboard = TextA

\* C11: a channel poll that reads a non-empty payload passes exactly that
\* payload to set_text, and leaves the history ring, the persistent store and
\* both backing files as they were.
C11_ChannelPollSetsClipboardOnly ==
    [][ (ChannelTimer /\ fifo /= <<>>)
        => /\ Len(calls') = Len(calls) + 1
           /\ calls'[Len(calls')].text = decode_utf8(fifo).text
           /\ clipboard' = decode_utf8(fifo).text
           /\ clipboard' = Flat(Unread)
           /\ fifo' = <<>>
           /\ wrote' = "none"
           /\ UNCHANGED <<ring, ring_db, persist, persist_db>> ]_vars

C11_Witness ==
    /\ calls /= <<>>
    /\ calls[Len(calls)].text = TextBN
    /\ clipboard = TextBN
    /\ ring = <<TextA>>
    /\ read(ring_db).result = <<TextA>>
    /\ fifo = <<>>

C13_NoTextNoChange ==
    /\ [] ( ~Truthy(clipboard) =>
             /\ sync_items(clipboard, ring) = [ret |-> FALSE, items |-> ring]
             /\ sync_items(clipboard, persist) = [ret |-> FALSE, items |-> persist] )
    /\ [][ (~Truthy(clipboard) /\ (CbWatcher \/ PersistentAdd \/ PersistentRemove))
           => /\ wrote' = "none"
              /\ UNCHANGED <<ring, ring_db, persist, persist_db>> ]_vars

C13_Witness ==
    /\ clipboard = EmptyText
    /\ wrote = "none"
    /\ ring = <<TextBP, TextA>>
    /\ persist = <<TextBN, EmptyText, TextA>>
    /\ read(persist_db).result = persist

\* C14: the index the second run works with is the number of the chosen row,
\* whether the launcher hands it over in ROFI_INFO or hands over the row's
\* text as the argument, and the entry copied is the one at that index; the
\* "<index>: " rows of mclip.py give their index back as well.
C14_IndexRoundTrip ==
    /\ picked /= NoPick =>
          /\ picked.index = picked.row
          /\ picked.err = "none"
          /\ picked.text = ShowList(menu.persistent)[picked.row + 1]
    /\ \A i \in 1..Len(menu.items) :
          copy_index(menu_row(i - 1, menu.items[i])) = [ok |-> TRUE, value |-> i - 1]

\* C19: the entry the second run writes to the channel is the entry the first
\* run displayed on the chosen row, whatever the daemon did in between.
C19_SelectedIsDisplayed ==
    (picked.via = "env" /\ picked.err = "none") => picked.text = picked.shown

\* C15: a channel poll that finds no data, be it EAGAIN or an empty read, sets
\* no clipboard text and changes nothing; and both callbacks always return
\* True, so both stay scheduled and the daemon never stops polling by itself.
C15_IdlePollKeepsRunning ==
    /\ [] (scheduled = Callbacks)
    /\ [] (cb_watcher_ret /\ \A fifo_in \in fifo_reads(fifo) : fifo_watcher_ret(fifo_in))
    /\ [][ (ChannelTimer /\ fifo = <<>>)
           => /\ calls' = calls
              /\ UNCHANGED <<clipboard, fifo, sent, ring_size, ring, ring_db,
                             persist, persist_db, scheduled>> ]_vars

C15_Witness ==
    /\ scheduled = Callbacks
    /\ fifo = <<>>
    /\ fifo_reads(fifo) = {None, <<>>}
    /\ Len(calls) = 1
    /\ clipboard = calls[1].text
    /\ ring = <<clipboard, TextA>>
    /\ wrote = "none"

\* The position of the first x in items
FirstAt(items, x) ==
    CHOOSE k \in 1..Len(items) : items[k] = x /\ \A j \in 1..(k - 1) : items[j] /= x

\* C16: persistent_remove with clipboard text v takes the first v out of the
\* persistent store and rewrites its file when v is there, the other entries
\* keeping their order; when v is not there, or is empty or absent, the store
\* and the file stay as they are.
C16_RemoveFirstOccurrence ==
    [][ PersistentRemove =>
          LET old == read(persist_db).result
              v == clipboard
          IN
          /\ old = persist
          /\ IF Truthy(v) /\ Contains(old, v)
             THEN /\ persist' = SubSeq(old, 1, FirstAt(old, v) - 1)
                                    \o SubSeq(old, FirstAt(old, v) + 1, Len(old))
                  /\ read(persist_db') = [err |-> "none", result |-> persist']
                  /\ wrote' = "persist_db"
             ELSE /\ persist' = old
                  /\ persist_db' = persist_db
                  /\ wrote' = "none" ]_vars

C16_Witness ==
    /\ wrote = "persist_db"
    /\ clipboard = TextA
    /\ persist = <<TextBN, EmptyText>>
    /\ read(persist_db).result = <<TextBN, EmptyText>>

\* A line of the edited file with every placeholder turned back into a newline
SubstBack(line) ==
    [j \in 1..Len(line) |-> IF line[j] = NEWLINE_CHAR THEN NEWLINE ELSE line[j]]

LinesOf(text) == [i \in 1..Len(splitlines(text)) |-> SubstBack(splitlines(text)[i])]

\* C17 as claimed: after the editor exits with 0 the persistent store, in
\* memory and on file, is the lines of the edited file, whatever the file holds.
C17_StoreIsEditedLines ==
    [][ (edit'.ret = 0 /\ EditorRun)
        => /\ persist' = LinesOf(edit'.text)
           /\ read(persist_db') = [err |-> "none", result |-> LinesOf(edit'.text)] ]_vars

\* C17: after the editor exits with 0 and leaves at least one line, the
\* persistent store, in memory and on file, is the lines of the edited file in
\* file order, placeholders turned back into newlines, and nothing of the old
\* store; a file left with no line at all leaves store and file as they were.
C17_StoreIsEditedLinesUnlessNone ==
    [][ (edit'.ret = 0 /\ EditorRun)
        => IF LinesOf(edit'.text) /= <<>>
           THEN /\ persist' = LinesOf(edit'.text)
                /\ read(persist_db') = [err |-> "none", result |-> LinesOf(edit'.text)]
                /\ wrote' = "persist_db"
           ELSE /\ persist' = persist
                /\ persist_db' = persist_db
                /\ wrote' = "none" ]_vars

C17_Witness ==
    /\ edit = [ret |-> 0, text |-> <<98, NEWLINE_CHAR, NEWLINE, NEWLINE, 97>>]
    /\ wrote = "persist_db"
    /\ persist = <<TextBN, EmptyText, TextA>>

\* C18: when the editor exits with a code other than 0 the persistent store,
\* in memory and on file, is what it was before the edit, and the editor is
\* not started a second time.
C18_FailedEditChangesNothing ==
    [][ (edit'.ret /= 0 /\ edit'.ret /= NoEdit.ret /\ EditorRun)
        => /\ persist' = persist
           /\ persist_db' = persist_db
           /\ read(persist_db') = [err |-> "none", result |-> persist]
           /\ wrote' = "none" ]_vars

C18_Witness ==
    /\ edit = [ret |-> 1, text |-> <<97, NEWLINE, 97, NEWLINE>>]
    /\ persist = <<TextBN, EmptyText, TextA>>
    /\ wrote = "none"

\* The clipboard holds what the last set_text of the channel poll put there
HoldsSelected == calls /= <<>> /\ clipboard = calls[Len(calls)].text

\* The clipboard text is the first entry of the ring, is in it once, and the
\* history file holds the ring
RecordedFirstIn(items, file, text) ==
    /\ items /= <<>>
    /\ items[1] = text
    /\ Times(items, text) = 1
    /\ read(file) = [err |-> "none", result |-> items]

RecordedFirst == RecordedFirstIn(ring, ring_db, clipboard)

\* C20: with ring_size >= 1, once the channel poll has put a payload on the
\* clipboard and nothing else changes the clipboard, the next clipboard poll
\* makes the payload the first entry of the ring, in the ring once, and
\* rewrites the history file to match; and that poll does come.
C20_SelectedBecomesMostRecent ==
    /\ (ring_size >= 1 /\ HoldsSelected) ~> (RecordedFirst \/ ~HoldsSelected)
    /\ [][ (ClipboardTimer /\ ring_size >= 1 /\ HoldsSelected)
           => /\ RecordedFirstIn(ring', ring_db', clipboard')
              /\ clipboard' = clipboard
              /\ (ring = <<>> \/ ring[1] /= clipboard) => wrote' = "ring_db" ]_vars

C20_Witness ==
    /\ sent = <<TextBP>>
    /\ Len(calls) = 1
    /\ clipboard = TextBP
    /\ HoldsSelected
    /\ ring = <<TextBP, TextA>>
    /\ wrote = "ring_db"

====
